---------------------------- MODULE Spec2Model ----------------------------
(***************************************************************************)
(* Model of go-city-distance (src/city-distance.go): the command line of   *)
(* main, the two concurrent GetLocation lookups of GetDistance and their   *)
(* join on an unbuffered channel, and the haversine computation of         *)
(* geoDistance on IEEE 754 binary64 numbers.                               *)
(***************************************************************************)
EXTENDS Integers, Sequences, FiniteSets, TLC

(***************************************************************************)
(* Natural numbers of any size: little-endian sequences of limbs in base   *)
(* LimbBase, without leading zero limbs. They carry the 53-bit significands *)
(* of float64 values and the exact results of operations before rounding.  *)
(***************************************************************************)
LimbBits == 15

LimbBase == 32768

Pow2(n) == 2 ^ n

Limb(a, i) == IF i <= Len(a) THEN a[i] ELSE 0

RECURSIVE BigNorm(_)
BigNorm(a) ==
    IF a = <<>> THEN <<>>
    ELSE IF a[Len(a)] = 0 THEN BigNorm(SubSeq(a, 1, Len(a) - 1))
    ELSE a

BigFromInt(n) ==
    BigNorm(<<n % LimbBase, (n \div LimbBase) % LimbBase,
              n \div (LimbBase * LimbBase)>>)

RECURSIVE BigAddFrom(_, _, _, _)
BigAddFrom(a, b, i, c) ==
    IF i > Len(a) /\ i > Len(b)
    THEN (IF c = 0 THEN <<>> ELSE <<c>>)
    ELSE LET t == Limb(a, i) + Limb(b, i) + c
         IN  <<t % LimbBase>> \o BigAddFrom(a, b, i + 1, t \div LimbBase)

BigAdd(a, b) == BigAddFrom(a, b, 1, 0)

\* a - b for a >= b
RECURSIVE BigSubFrom(_, _, _, _)
BigSubFrom(a, b, i, c) ==
    IF i > Len(a) THEN <<>>
    ELSE LET t == a[i] - Limb(b, i) - c
         IN  IF t < 0
             THEN <<t + LimbBase>> \o BigSubFrom(a, b, i + 1, 1)
             ELSE <<t>> \o BigSubFrom(a, b, i + 1, 0)

BigSub(a, b) == BigNorm(BigSubFrom(a, b, 1, 0))

\* -1, 0 or 1 as a < b, a = b or a > b, comparing from limb i downwards
RECURSIVE BigCmpFrom(_, _, _)
BigCmpFrom(a, b, i) ==
    IF i = 0 THEN 0
    ELSE IF a[i] < b[i] THEN -1
    ELSE IF a[i] > b[i] THEN 1
    ELSE BigCmpFrom(a, b, i - 1)

BigCmp(a, b) ==
    IF Len(a) < Len(b) THEN -1
    ELSE IF Len(a) > Len(b) THEN 1
    ELSE BigCmpFrom(a, b, Len(a))

\* a * d for one limb d
RECURSIVE BigMulLimbFrom(_, _, _, _)
BigMulLimbFrom(a, d, i, c) ==
    IF i > Len(a)
    THEN (IF c = 0 THEN <<>> ELSE <<c>>)
    ELSE LET t == a[i] * d + c
         IN  <<t % LimbBase>> \o BigMulLimbFrom(a, d, i + 1, t \div LimbBase)

BigMulLimb(a, d) == IF d = 0 THEN <<>> ELSE BigMulLimbFrom(a, d, 1, 0)

RECURSIVE BigMul(_, _)
BigMul(a, b) ==
    IF a = <<>> \/ b = <<>> THEN <<>>
    ELSE LET rest == BigMul(a, Tail(b))
         IN  BigAdd(BigMulLimb(a, Head(b)),
                    IF rest = <<>> THEN <<>> ELSE <<0>> \o rest)

Zeros(q) == SubSeq([i \in 1..q |-> 0], 1, q)

\* a * 2^k
BigShl(a, k) ==
    IF a = <<>> THEN <<>>
    ELSE Zeros(k \div LimbBits) \o BigMulLimb(a, Pow2(k % LimbBits))

\* the limbs of a from limb q + 1 on
BigDropLimbs(a, q) == IF q >= Len(a) THEN <<>> ELSE SubSeq(a, q + 1, Len(a))

\* floor(d / 2^r) for r < LimbBits
BigShrBits(d, r) ==
    IF r = 0 THEN d
    ELSE BigNorm(SubSeq([i \in 1..Len(d) |->
                            (d[i] \div Pow2(r))
                                + (Limb(d, i + 1) % Pow2(r)) * Pow2(LimbBits - r)],
                        1, Len(d)))

\* floor(a / 2^k)
BigShr(a, k) == BigShrBits(BigDropLimbs(a, k \div LimbBits), k % LimbBits)

\* bit k (from 0) of a
BigBit(a, k) == (Limb(a, (k \div LimbBits) + 1) \div Pow2(k % LimbBits)) % 2

\* whether one of the k lowest bits of a is set
BigLowBits(a, k) ==
    \/ \E i \in 1..(k \div LimbBits) : Limb(a, i) # 0
    \/ Limb(a, (k \div LimbBits) + 1) % Pow2(k % LimbBits) # 0

LimbLen(x) == CHOOSE n \in 0..LimbBits : x < Pow2(n) /\ (n = 0 \/ x >= Pow2(n - 1))

\* the number of bits of a (0 for zero)
BigBitLen(a) ==
    IF a = <<>> THEN 0 ELSE LimbBits * (Len(a) - 1) + LimbLen(a[Len(a)])

BigOdd(a) == a # <<>> /\ a[1] % 2 = 1

\* one step of restoring division for a remainder r < 2b: the next quotient bit
BigDivBit(r, q, b) ==
    IF BigCmp(r, b) >= 0
    THEN <<BigSub(r, b), BigAdd(BigShl(q, 1), <<1>>)>>
    ELSE <<r, BigShl(q, 1)>>

\* n more steps from st = <<r, q>>; a zero remainder leaves only zero bits
RECURSIVE BigDivSteps(_, _, _)
BigDivSteps(st, b, n) ==
    IF st[1] = <<>> THEN << <<>>, BigShl(st[2], n) >>
    ELSE IF n = 0 THEN st
    ELSE IF n = 1 THEN BigDivBit(BigShl(st[1], 1), st[2], b)
    ELSE BigDivSteps(BigDivSteps(st, b, n \div 2), b, n - (n \div 2))

BigQuotient(st) == <<st[2], st[1] # <<>> >>

\* floor(a * 2^n / b) and whether the division left a remainder, for a < 2b
BigDiv(a, b, n) == BigQuotient(BigDivSteps(BigDivBit(a, <<>>, b), b, n))

\* one digit of the square root: t = res + bit, bit a power of 4
BigSqrtBit(n, res, bit, t) ==
    IF BigCmp(n, t) >= 0
    THEN <<BigSub(n, t), BigAdd(BigShr(res, 1), bit), BigShr(bit, 2)>>
    ELSE <<n, BigShr(res, 1), BigShr(bit, 2)>>

\* k more digits from st = <<n, res, bit>>, stopping when bit is used up
RECURSIVE BigSqrtSteps(_, _)
BigSqrtSteps(st, k) ==
    IF st[3] = <<>> THEN st
    ELSE IF k = 1 THEN BigSqrtBit(st[1], st[2], st[3], BigAdd(st[2], st[3]))
    ELSE BigSqrtSteps(BigSqrtSteps(st, k \div 2), k - (k \div 2))

BigRoot(st) == <<st[2], st[1] # <<>> >>

\* floor(sqrt(a)) and whether a is not a square, digit by digit from 4^d down
BigSqrt(a, d) == BigRoot(BigSqrtSteps(<<a, <<>>, BigShl(<<1>>, 2 * d)>>, d + 1))

\* 2 * q, plus one when sticky: the last bit records an inexact result
BigSticky(qs) == BigAdd(BigShl(qs[1], 1), IF qs[2] THEN <<1>> ELSE <<>>)

BigToInt(a) == Limb(a, 1) + Limb(a, 2) * LimbBase

(***************************************************************************)
(* float64 (IEEE 754 binary64) values. A finite non-zero value is          *)
(* (-1)^s * m * 2^e with the significand m of exactly SigBits bits; k tells *)
(* it from the zeros, the infinities and NaN. Every operation computes the *)
(* exact result and rounds it once, to nearest, ties to even. Below the     *)
(* normal range the values are the multiples of 2^MinExp (the subnormals): *)
(* there e is MinExp and m has fewer bits.                                 *)
(***************************************************************************)
SigBits == 53

MaxExp == 971

MinExp == -1074

F64Num(s, e, m) == [k |-> "num", s |-> s, e |-> e, m |-> m]

F64Zero(s) == [k |-> "zero", s |-> s, e |-> 0, m |-> <<>>]

F64Inf(s) == [k |-> "inf", s |-> s, e |-> 0, m |-> <<>>]

F64NaN == [k |-> "nan", s |-> 0, e |-> 0, m |-> <<>>]

IsNaN(x) == x.k = "nan"

\* overflow gives an infinity
F64Fit(s, e, m) == IF e > MaxExp THEN F64Inf(s) ELSE F64Num(s, e, m)

\* a result that rounds to less than 2^MinExp is a zero
F64TinyOf(s, q) == IF q = <<>> THEN F64Zero(s) ELSE F64Num(s, MinExp, q)

\* whether M / 2^sh rounds up from q = floor(M / 2^sh): nearest, ties to even
RoundsUp(M, sh, q) == BigBit(M, sh - 1) = 1 /\ (BigLowBits(M, sh - 1) \/ BigOdd(q))

F64TinyAt(s, M, sh, q) == F64TinyOf(s, IF RoundsUp(M, sh, q) THEN BigAdd(q, <<1>>) ELSE q)

\* (-1)^s * M * 2^E below the normal range: rounded to a multiple of 2^MinExp
\* (gradual underflow)
F64Tiny(s, M, E) ==
    IF E >= MinExp THEN F64Num(s, MinExp, BigShl(M, E - MinExp))
    ELSE F64TinyAt(s, M, MinExp - E, BigShr(M, MinExp - E))

\* the significand of x shifted to SigBits bits, and the exponent that goes
\* with it
F64NormM(x) == BigShl(x.m, SigBits - BigBitLen(x.m))

F64NormE(x) == x.e - (SigBits - BigBitLen(x.m))

\* (-1)^s * q * 2^E for q of SigBits or SigBits + 1 bits
F64Carry(s, q, E) ==
    IF BigBitLen(q) > SigBits THEN F64Fit(s, E + 1, BigShr(q, 1)) ELSE F64Fit(s, E, q)

\* M of more than SigBits bits rounded at bit sh, where q = floor(M / 2^sh)
F64RoundAt(s, M, E, sh, q) ==
    F64Carry(s, IF RoundsUp(M, sh, q) THEN BigAdd(q, <<1>>) ELSE q, E + sh)

\* M of L bits
F64RoundBits(s, M, E, L) ==
    IF E + L - SigBits < MinExp THEN F64Tiny(s, M, E)
    ELSE IF L <= SigBits
    THEN F64Fit(s, E - (SigBits - L), BigShl(M, SigBits - L))
    ELSE F64RoundAt(s, M, E, L - SigBits, BigShr(M, L - SigBits))

\* (-1)^s * M * 2^E rounded to the nearest float64, ties to even
F64Round(s, M, E) ==
    IF M = <<>> THEN F64Zero(s) ELSE F64RoundBits(s, M, E, BigBitLen(M))

\* float64(n) for an integer n
F64FromInt(n) ==
    F64Round(IF n < 0 THEN 1 ELSE 0, BigFromInt(IF n < 0 THEN 0 - n ELSE n), 0)

F64Neg(x) == IF IsNaN(x) THEN x ELSE [x EXCEPT !.s = 1 - x.s]

F64Abs(x) == IF IsNaN(x) THEN x ELSE [x EXCEPT !.s = 0]

\* (-1)^sx * mx * 2^e + (-1)^sy * my * 2^e, where c compares mx with my
F64AddAligned(sx, mx, sy, my, e, c) ==
    IF sx # sy /\ c = 0 THEN F64Zero(0)
    ELSE F64Round(IF sx = sy \/ c > 0 THEN sx ELSE sy,
                  IF sx = sy THEN BigAdd(mx, my)
                  ELSE IF c > 0 THEN BigSub(mx, my) ELSE BigSub(my, mx),
                  e)

F64AddShifted(x, mx, y) == F64AddAligned(x.s, mx, y.s, y.m, y.e, BigCmp(mx, y.m))

\* x + y for finite non-zero x, y with x.e >= y.e
F64AddNum(x, y) ==
    IF x.e - y.e > SigBits + 1 THEN x
    ELSE F64AddShifted(x, BigShl(x.m, x.e - y.e), y)

F64Add(x, y) ==
    IF IsNaN(x) \/ IsNaN(y) THEN F64NaN
    ELSE IF x.k = "inf" THEN (IF y.k = "inf" /\ y.s # x.s THEN F64NaN ELSE x)
    ELSE IF y.k = "inf" THEN y
    ELSE IF x.k = "zero" THEN (IF y.k = "zero" THEN F64Zero(IF x.s = y.s THEN x.s ELSE 0)
                               ELSE y)
    ELSE IF y.k = "zero" THEN x
    ELSE F64AddNum(IF x.e >= y.e THEN x ELSE y, IF x.e >= y.e THEN y ELSE x)

F64Sub(x, y) == F64Add(x, F64Neg(y))

Xor(a, b) == IF a = b THEN 0 ELSE 1

F64Mul(x, y) ==
    IF IsNaN(x) \/ IsNaN(y) THEN F64NaN
    ELSE IF x.k = "inf" \/ y.k = "inf"
         THEN (IF x.k = "zero" \/ y.k = "zero" THEN F64NaN ELSE F64Inf(Xor(x.s, y.s)))
    ELSE IF x.k = "zero" \/ y.k = "zero" THEN F64Zero(Xor(x.s, y.s))
    ELSE F64Round(Xor(x.s, y.s), BigMul(x.m, y.m), x.e + y.e)

DivBits == 55

F64Div(x, y) ==
    IF IsNaN(x) \/ IsNaN(y) THEN F64NaN
    ELSE IF x.k = "inf" THEN (IF y.k = "inf" THEN F64NaN ELSE F64Inf(Xor(x.s, y.s)))
    ELSE IF y.k = "inf" THEN F64Zero(Xor(x.s, y.s))
    ELSE IF y.k = "zero" THEN (IF x.k = "zero" THEN F64NaN ELSE F64Inf(Xor(x.s, y.s)))
    ELSE IF x.k = "zero" THEN F64Zero(Xor(x.s, y.s))
    ELSE F64Round(Xor(x.s, y.s), BigSticky(BigDiv(F64NormM(x), F64NormM(y), DivBits)),
                  F64NormE(x) - F64NormE(y) - DivBits - 1)

SqrtShift == 58

\* sqrt(m * 2^e) for an even e - k
SqrtOf(m, e, k) ==
    F64Round(0,
             BigSticky(BigSqrt(BigShl(m, k), SqrtShift - 3)),
             ((e - k) \div 2) - 1)

\* math.Sqrt: the correctly rounded square root
Sqrt(x) ==
    IF IsNaN(x) THEN F64NaN
    ELSE IF x.k = "zero" THEN x
    ELSE IF x.s = 1 THEN F64NaN
    ELSE IF x.k = "inf" THEN x
    ELSE SqrtOf(F64NormM(x), F64NormE(x),
                IF F64NormE(x) % 2 = 0 THEN SqrtShift ELSE SqrtShift + 1)

\* -1, 0, 1 as x < y, x = y, x > y, for x and y that are not NaN
F64Mag(x, y) ==
    IF x.k = "zero" THEN (IF y.k = "zero" THEN 0 ELSE -1)
    ELSE IF y.k = "zero" THEN 1
    ELSE IF x.k = "inf" THEN (IF y.k = "inf" THEN 0 ELSE 1)
    ELSE IF y.k = "inf" THEN -1
    ELSE IF x.e # y.e THEN (IF x.e < y.e THEN -1 ELSE 1)
    ELSE BigCmp(x.m, y.m)

F64Cmp(x, y) ==
    IF x.k = "zero" /\ y.k = "zero" THEN 0
    ELSE IF x.k = "zero" THEN (IF y.s = 0 THEN -1 ELSE 1)
    ELSE IF y.k = "zero" THEN (IF x.s = 0 THEN 1 ELSE -1)
    ELSE IF x.s # y.s THEN (IF x.s = 1 THEN -1 ELSE 1)
    ELSE IF x.s = 0 THEN F64Mag(x, y)
    ELSE F64Mag(y, x)

F64Eq(x, y) == ~IsNaN(x) /\ ~IsNaN(y) /\ F64Cmp(x, y) = 0

F64Lt(x, y) == ~IsNaN(x) /\ ~IsNaN(y) /\ F64Cmp(x, y) < 0

F64Le(x, y) == ~IsNaN(x) /\ ~IsNaN(y) /\ F64Cmp(x, y) <= 0

\* uint64(x) for a finite x >= 0 below 2^30: the integer part
F64ToUint(x) ==
    IF x.k # "num" THEN 0
    ELSE IF x.e >= 0 THEN BigToInt(BigShl(x.m, x.e))
    ELSE BigToInt(BigShr(x.m, 0 - x.e))

(***************************************************************************)
(* The functions of Go's package math that geoDistance calls, as Go's      *)
(* portable implementation computes them (the Cephes algorithms), one      *)
(* float64 operation at a time. Constants are the float64 nearest to the   *)
(* decimal constant of the Go source.                                      *)
(***************************************************************************)
\* math.Pi = 3.14159265358979323846...
Pi == F64Num(0, -51, <<11544, 10376, 2029, 201>>)

\* 4 / Pi
M4PI == F64Num(0, -52, <<18563, 23443, 31937, 162>>)

\* Pi / 2
PiO2 == F64Num(0, -52, <<11544, 10376, 2029, 201>>)

\* Pi / 4
PiO4 == F64Num(0, -53, <<11544, 10376, 2029, 201>>)

\* 3 * Pi / 4
ThreePiO4 == F64Num(0, -51, <<8658, 32358, 26097, 150>>)

\* the three parts of Pi/4 used for the argument reduction
PI4A == F64Num(0, -53, <<0, 0, 2029, 201>>)

PI4B == F64Num(0, -77, <<0, 0, 4276, 162>>)

PI4C == F64Num(0, -101, <<20848, 12696, 6754, 194>>)

\* _sin and _cos: the coefficients of the sine and cosine polynomials
SinCoef ==
    <<F64Num(0, -85, <<7373, 16291, 25588, 174>>),
       F64Num(1, -78, <<8029, 21074, 6038, 215>>),
       F64Num(0, -71, <<18593, 11514, 30605, 184>>),
       F64Num(1, -65, <<24323, 13183, 1664, 208>>),
       F64Num(0, -59, <<30672, 8737, 17476, 136>>),
       F64Num(1, -55, <<21832, 10922, 21845, 170>>)>>

CosCoef ==
    <<F64Num(1, -89, <<6811, 16652, 26918, 199>>),
       F64Num(0, -81, <<16133, 30364, 14965, 143>>),
       F64Num(1, -74, <<19398, 32088, 31037, 147>>),
       F64Num(0, -68, <<17653, 13200, 1664, 208>>),
       F64Num(1, -62, <<20369, 11650, 1456, 182>>),
       F64Num(0, -57, <<21835, 10922, 21845, 170>>)>>

\* P0..P4 and Q0..Q4 of xatan
AtanP ==
    <<F64Num(1, -53, <<9620, 17390, 510, 224>>),
       F64Num(1, -48, <<122, 14039, 8529, 129>>),
       F64Num(1, -46, <<627, 27920, 560, 150>>),
       F64Num(1, -46, <<14885, 23051, 25340, 245>>),
       F64Num(1, -46, <<27790, 31313, 22951, 129>>)>>

AtanQ ==
    <<F64Num(0, -48, <<24636, 13864, 28433, 198>>),
       F64Num(0, -45, <<31269, 1905, 885, 165>>),
       F64Num(0, -44, <<15931, 9669, 14435, 216>>),
       F64Num(0, -44, <<18922, 10080, 22780, 242>>),
       F64Num(0, -45, <<25324, 30586, 18043, 194>>)>>

\* pi/2 = PIO2 + Morebits
Morebits == F64Num(0, -106, <<23559, 26152, 6296, 141>>)

HalfMorebits == F64Num(0, -107, <<23559, 26152, 6296, 141>>)

\* tan(3*pi/8)
Tan3pio8 == F64Num(0, -51, <<7654, 26239, 16700, 154>>)

\* 1.0
F64One == F64Num(0, -52, <<0, 0, 0, 128>>)

\* 0.5
F64Half == F64Num(0, -53, <<0, 0, 0, 128>>)

\* 2.0
F64Two == F64Num(0, -51, <<0, 0, 0, 128>>)

\* 0.66, the bound of xatan's range
AtanSmall == F64Num(0, -53, <<1311, 9175, 31457, 168>>)

\* reduceThreshold = 1 << 29: from here on the argument is reduced by trigReduce
ReduceThreshold == F64Num(0, -23, <<0, 0, 0, 128>>)

\* mPi4: the binary digits of 4/pi, twenty words of 64 bits, the first word
\* (the integer part, 1) the most significant, as one number
MPi4 ==
    <<22359, 29165, 567, 24627, 8458, 25431, 22671, 31583, 21719, 19019,
      15442, 29599, 26528, 31838, 30194, 15047, 27215, 10421, 29439, 30313,
      26823, 28115, 25988, 20263, 27901, 32180, 21352, 13728, 25137, 31691,
      19463, 24069, 12287, 32738, 16856, 24466, 29047, 8471, 31310, 21305,
      29446, 18264, 2508, 30692, 22155, 7177, 29902, 17540, 23926, 22484,
      17425, 29678, 9524, 18220, 3829, 7422, 8996, 10279, 18807, 100,
      14940, 4243, 14109, 14116, 2755, 31471, 7518, 25878, 2111, 4324,
      19614, 25237, 438, 21367, 4009, 30077, 16260, 1354, 10018, 878,
      17907, 2>>

MPi4Bits == 1280

\* a mod 2^k
BigLow(a, k) ==
    IF Len(a) <= k \div LimbBits THEN a
    ELSE BigNorm(Append(SubSeq(a, 1, k \div LimbBits),
                        a[(k \div LimbBits) + 1] % Pow2(k % LimbBits)))

\* z0, z1, z2: the three words of mPi4 from bit exp + 61 on
TrigDigits(exp) == BigLow(BigShr(MPi4, MPi4Bits - 192 - (exp + 61)), 192)

\* hi, lo: the product of the three words and ix, without its lowest word
\* and without what exceeds two words
TrigProduct(z, ix) == BigLow(BigShr(BigMul(z, ix), 64), 128)

\* j = hi >> 61
TrigOctant(p) == BigToInt(BigShr(p, 125))

\* hi<<3 | lo>>61, and lo
TrigFraction(p) == <<BigLow(BigShr(p, 61), 64), BigLow(p, 64)>>

\* ((hi << (lz + 1)) | (lo >> (64 - (lz + 1)))) >> (64 - shift) for lz leading
\* zeros of hi; a shift by 64 bits or more leaves 0
TrigSig(hi, lo, lz) ==
    IF lz = 64 THEN <<>>
    ELSE BigShr(BigAdd(BigLow(BigShl(hi, lz + 1), 64), BigShr(lo, 63 - lz)), 12)

\* z: the float64 with these significand bits and the exponent -(lz + 1)
TrigValue(hi, lo, lz) ==
    F64Round(0, BigAdd(BigShl(<<1>>, SigBits - 1), TrigSig(hi, lo, lz)),
             0 - (lz + 1) - (SigBits - 1))

\* if j&1 == 1 { j++; j &= 7; z-- }; return j, z * PI4
TrigReduceOf(j, z) ==
    IF j % 2 = 1 THEN <<(j + 1) % 8, F64Mul(F64Sub(z, F64One), PiO4)>>
    ELSE <<j, F64Mul(z, PiO4)>>

TrigReduceFrom(j, f) == TrigReduceOf(j, TrigValue(f[1], f[2], 64 - BigBitLen(f[1])))

TrigReduceProduct(p) == TrigReduceFrom(TrigOctant(p), TrigFraction(p))

\* trigReduce (Payne-Hanek): <<j, z>> for x >= 0, x = x.m * 2^x.e
trigReduce(x) ==
    IF F64Lt(x, PiO4) THEN <<0, x>>
    ELSE TrigReduceProduct(TrigProduct(TrigDigits(x.e), x.m))

\* (...((h + c[i]) * z + c[i+1]) * z ...) + c[n]: the source's nested polynomial,
\* from coefficient i on, where h is the value so far
RECURSIVE Horner(_, _, _, _)
Horner(h, c, z, i) ==
    IF i = Len(c) THEN F64Add(h, c[i])
    ELSE CHOOSE p \in {Horner(v, c, z, i + 1) : v \in {F64Mul(F64Add(h, c[i]), z)}} : TRUE

\* z + z*zz*(...)
SinPoly(z, zz) ==
    F64Add(z, F64Mul(F64Mul(z, zz), Horner(F64Mul(SinCoef[1], zz), SinCoef, zz, 2)))

\* 1.0 - 0.5*zz + zz*zz*(...)
CosPoly(zz) ==
    F64Add(F64Sub(F64One, F64Mul(F64Half, zz)),
           F64Mul(F64Mul(zz, zz), Horner(F64Mul(CosCoef[1], zz), CosCoef, zz, 2)))

\* j after "if j&1 == 1 { j++ }"
OctantIndex(j) == IF j % 2 = 1 THEN j + 1 ELSE j

\* z := ((x - y*PI4A) - y*PI4B) - y*PI4C
OctantRemainder(x, y) ==
    F64Sub(F64Sub(F64Sub(x, F64Mul(y, PI4A)), F64Mul(y, PI4B)), F64Mul(y, PI4C))

OctantOf(x, j) == <<j % 8, OctantRemainder(x, F64FromInt(j))>>

\* For 0 <= x: <<j, z>>, the octant of x modulo 2 Pi and the remainder of x
\* in it
Octant(x) ==
    IF F64Le(ReduceThreshold, x) THEN trigReduce(x)
    ELSE OctantOf(x, OctantIndex(F64ToUint(F64Mul(x, M4PI))))

Signed(sign, y) == IF sign = 1 THEN F64Neg(y) ELSE y

\* the sine in octant j (0..3) of the remainder z, with the sign sign
SinOf(sign, j, z) ==
    Signed(sign, IF j = 1 \/ j = 2 THEN CosPoly(F64Mul(z, z))
                 ELSE SinPoly(z, F64Mul(z, z)))

SinOctant(s, jz) ==
    SinOf(IF jz[1] > 3 THEN 1 - s ELSE s, IF jz[1] > 3 THEN jz[1] - 4 ELSE jz[1], jz[2])

\* math.Sin
Sin(x) ==
    IF x.k = "zero" \/ IsNaN(x) THEN x
    ELSE IF x.k = "inf" THEN F64NaN
    ELSE SinOctant(x.s, Octant(F64Abs(x)))

\* the cosine in octant j (0..3) of the remainder z, with the sign sign
CosOf(sign, j, z) ==
    Signed(sign, IF j = 1 \/ j = 2 THEN SinPoly(z, F64Mul(z, z))
                 ELSE CosPoly(F64Mul(z, z)))

CosQuadrant(flip, j, z) == CosOf(Xor(flip, IF j > 1 THEN 1 ELSE 0), j, z)

CosOctant(jz) ==
    CosQuadrant(IF jz[1] > 3 THEN 1 ELSE 0, IF jz[1] > 3 THEN jz[1] - 4 ELSE jz[1],
                jz[2])

\* math.Cos
Cos(x) ==
    IF IsNaN(x) \/ x.k = "inf" THEN F64NaN
    ELSE CosOctant(Octant(F64Abs(x)))

\* x * (z * P(z) / Q(z)) + x for z = x * x
xatanOf(x, z) ==
    F64Add(F64Mul(x, F64Div(F64Mul(z, Horner(F64Mul(AtanP[1], z), AtanP, z, 2)),
                            Horner(z, AtanQ, z, 1))),
           x)

\* xatan: the series, valid in [0, 0.66]
xatan(x) == xatanOf(x, F64Mul(x, x))

\* satan: reduces its argument (positive) to [0, 0.66] and calls xatan
satan(x) ==
    IF F64Le(x, AtanSmall) THEN xatan(x)
    ELSE IF F64Lt(Tan3pio8, x)
    THEN F64Add(F64Sub(PiO2, xatan(F64Div(F64One, x))), Morebits)
    ELSE F64Add(F64Add(PiO4, xatan(F64Div(F64Sub(x, F64One), F64Add(x, F64One)))),
                HalfMorebits)

\* math.Atan
Atan(x) ==
    IF IsNaN(x) THEN F64NaN
    ELSE IF x.k = "zero" THEN x
    ELSE IF x.s = 0 THEN satan(x)
    ELSE F64Neg(satan(F64Neg(x)))

Copysign(x, y) == [x EXCEPT !.s = y.s]

\* q := Atan(y / x); if x < 0 { if q <= 0 { return q + Pi }; return q - Pi }; return q
Atan2Of(q, x) ==
    IF x.s = 1
    THEN (IF F64Le(q, F64Zero(0)) THEN F64Add(q, Pi) ELSE F64Sub(q, Pi))
    ELSE q

\* math.Atan2
Atan2(y, x) ==
    IF IsNaN(x) \/ IsNaN(y) THEN F64NaN
    ELSE IF y.k = "zero"
         THEN (IF x.s = 0 THEN Copysign(F64Zero(0), y) ELSE Copysign(Pi, y))
    ELSE IF x.k = "zero" THEN Copysign(PiO2, y)
    ELSE IF x.k = "inf"
         THEN (IF x.s = 0
               THEN (IF y.k = "inf" THEN Copysign(PiO4, y) ELSE Copysign(F64Zero(0), y))
               ELSE (IF y.k = "inf" THEN Copysign(ThreePiO4, y)
                     ELSE Copysign(Pi, y)))
    ELSE IF y.k = "inf" THEN Copysign(PiO2, y)
    ELSE Atan2Of(Atan(F64Div(y, x)), x)

(***************************************************************************)
(* The distance engine: Degree.GetRadians, geoDistance and KM2Miles.       *)
(* A Location is [Lat, Lng, Address], Lat and Lng float64 degrees.         *)
(***************************************************************************)
EARTH_RADIUS == 6371

\* Degree.GetRadians: float64(d) * math.Pi / 180.0
GetRadians(d) == F64Div(F64Mul(d, Pi), F64FromInt(180))

\* Haversine with math.Cos(phi1) written twice
HaversineTypo(sphi, cphi1, cphi2, slam) ==
    F64Add(F64Mul(sphi, sphi), F64Mul(F64Mul(F64Mul(cphi1, cphi1), slam), slam))

\* sphi*sphi + cphi1*cphi2*slam*slam
Haversine(sphi, cphi1, cphi2, slam) ==
    F64Add(F64Mul(sphi, sphi), F64Mul(F64Mul(F64Mul(cphi1, cphi2), slam), slam))

\* geoRadians with phi2 taken from the first location
geoRadiansFirst(loc1, loc2) ==
    <<GetRadians(loc1.Lat), GetRadians(loc1.Lat),
      GetRadians(F64Sub(loc1.Lat, loc2.Lat)), GetRadians(F64Sub(loc1.Lng, loc2.Lng))>>

\* phi1, phi2, deltaphi, deltalambda
geoRadians(loc1, loc2) ==
    <<GetRadians(loc1.Lat), GetRadians(loc2.Lat),
      GetRadians(F64Sub(loc1.Lat, loc2.Lat)), GetRadians(F64Sub(loc1.Lng, loc2.Lng))>>

\* math.Sin(deltaphi/2), math.Cos(phi1), math.Cos(phi2), math.Sin(deltalambda/2)
geoTrig(r) ==
    <<Sin(F64Div(r[3], F64Two)), Cos(r[1]), Cos(r[2]), Sin(F64Div(r[4], F64Two))>>

\* the value a of geoDistance: the square of half the chord length. The
\* statements run in order: each value is computed before the next uses it
geoA(loc1, loc2) ==
    CHOOSE a \in {Haversine(t[1], t[2], t[3], t[4]) :
                     t \in {geoTrig(r) : r \in {geoRadians(loc1, loc2)}}} : TRUE

\* math.Sqrt(a), math.Sqrt(1-a)
geoRoots(a) == <<Sqrt(a), Sqrt(F64Sub(F64One, a))>>

\* c := 2 * math.Atan2(math.Sqrt(a), math.Sqrt(1-a)); return EARTH_RADIUS * c
geoC(a) ==
    CHOOSE d \in {F64Mul(F64FromInt(EARTH_RADIUS), F64Mul(F64Two, Atan2(q[1], q[2]))) :
                     q \in {geoRoots(a)}} : TRUE

geoDistance(loc1, loc2) == CHOOSE d \in {geoC(a) : a \in {geoA(loc1, loc2)}} : TRUE

\* 0.621371192
MilesPerKm == F64Num(0, -53, <<8466, 11540, 2327, 159>>)

\* KM2Miles dividing by the constant
KM2MilesInverse(km) == F64Div(km, MilesPerKm)

KM2Miles(km) == F64Mul(km, MilesPerKm)

(***************************************************************************)
(* Strings are sequences of characters. The command line is a sequence of  *)
(* strings drawn from ArgTokens.                                           *)
(***************************************************************************)
TokHelp == <<"-", "-", "h", "e", "l", "p">>

TokUnit == <<"-", "-", "u", "n", "i", "t">>

Km == <<"k", "m">>

Miles == <<"m", "i", "l", "e", "s">>

Feet == <<"f", "t">>

NewYork == <<"N", " ", "Y">>

\* --unit=miles as one argument
UnitMiles == TokUnit \o <<"=">> \o Miles

\* -h
TokH == <<"-", "h">>

ArgTokens == {TokHelp, TokH, TokUnit, UnitMiles, Feet, NewYork}

\* the longest command line (arguments after the program name)
MaxArgs == 3

RECURSIVE SeqsUpTo(_, _)
SeqsUpTo(S, n) ==
    IF n = 0 THEN {<<>>}
    ELSE LET shorter == SeqsUpTo(S, n - 1)
         IN  shorter \cup {Append(w, x) : w \in {v \in shorter : Len(v) = n - 1}, x \in S}

CommandLines == SeqsUpTo(ArgTokens, MaxArgs)

(***************************************************************************)
(* flag.Parse over the flags main defines: the string flag "unit" (default *)
(* "km") and the boolean flag "help". Parsing stops at the first argument  *)
(* that is not a flag; a flag may have one or two minus signs. The result  *)
(* is [unit, help, err, narg], err the parse error or the empty string,    *)
(* narg the number of arguments left after the flags (flag.NArg). The flag *)
(* -h, which main does not define, ends the parsing with ErrHelp.          *)
(***************************************************************************)
FlagName(s) == IF s[2] = "-" THEN SubSeq(s, 3, Len(s)) ELSE SubSeq(s, 2, Len(s))

\* the position of the first "=" of name after its first character, or 0
EqualsAt(name) ==
    LET P == {i \in 2..Len(name) : name[i] = "="}
    IN  IF P = {} THEN 0 ELSE CHOOSE i \in P : \A j \in P : i <= j

\* strconv.ParseBool: <<b>>, or <<>> for a syntax error
ParseBool(v) ==
    IF v \in {<<"1">>, <<"t">>, <<"T">>, <<"T", "R", "U", "E">>, <<"t", "r", "u", "e">>,
              <<"T", "r", "u", "e">>}
    THEN <<TRUE>>
    ELSE IF v \in {<<"0">>, <<"f">>, <<"F">>, <<"F", "A", "L", "S", "E">>,
                   <<"f", "a", "l", "s", "e">>, <<"F", "a", "l", "s", "e">>}
    THEN <<FALSE>>
    ELSE <<>>

\* flag.ErrHelp
ErrHelp == "flag: help requested"

RECURSIVE ParseFlags(_, _)
ParseFlags(as, st) ==
    IF as = <<>> THEN st
    ELSE LET s == Head(as)
             full == FlagName(s)
             eq == EqualsAt(full)
             name == IF eq = 0 THEN full ELSE SubSeq(full, 1, eq - 1)
             value == SubSeq(full, eq + 1, Len(full))
         IN  IF Len(s) < 2 \/ s[1] # "-" THEN [st EXCEPT !.narg = Len(as)]
             ELSE IF s = <<"-", "-">> THEN [st EXCEPT !.narg = Len(as) - 1]
             ELSE IF full = <<>> \/ full[1] \in {"-", "="}
                  THEN [st EXCEPT !.err = "bad flag syntax"]
             ELSE IF name = <<"h", "e", "l", "p">>
                  THEN (IF eq = 0 THEN ParseFlags(Tail(as), [st EXCEPT !.help = TRUE])
                        ELSE IF ParseBool(value) = <<>>
                        THEN [st EXCEPT !.err = "invalid boolean value"]
                        ELSE ParseFlags(Tail(as), [st EXCEPT !.help = ParseBool(value)[1]]))
             ELSE IF name = <<"u", "n", "i", "t">>
                  THEN (IF eq # 0 THEN ParseFlags(Tail(as), [st EXCEPT !.unit = value])
                        ELSE IF Len(as) < 2
                        THEN [st EXCEPT !.err = "flag needs an argument"]
                        ELSE ParseFlags(Tail(Tail(as)), [st EXCEPT !.unit = as[2]]))
             ELSE IF name = <<"h">> THEN [st EXCEPT !.err = ErrHelp]
             ELSE [st EXCEPT !.err = "flag provided but not defined"]

FlagParse(as) ==
    ParseFlags(as, [unit |-> Km, help |-> FALSE, err |-> "", narg |-> 0])

(***************************************************************************)
(* The geocoding service. A response is a transport error or a body; a     *)
(* body is a sequence of JSON tokens. json.Decoder.Decode reads the first  *)
(* JSON value of the body into a GoogleGeoAPIResponse and does not look at *)
(* what follows it.                                                        *)
(***************************************************************************)
LBrace == [t |-> "{"]

RBrace == [t |-> "}"]

LBracket == [t |-> "["]

RBracket == [t |-> "]"]

ResultsKey == [t |-> "results"]

StatusMember(v) == [t |-> "status", v |-> v]

Junk == [t |-> "junk"]

\* one element of "results": decimal numbers are <<digits, decimals>>
ResultToken(addr, lat, lng) ==
    [t |-> "result", formatted_address |-> addr, lat |-> lat, lng |-> lng]

Pow10(d) == 10 ^ d

\* the float64 nearest to the decimal number <<n, d>> = n / 10^d
ParseNumber(num) == F64Div(F64FromInt(num[1]), F64FromInt(Pow10(num[2])))

\* the places the service knows: formatted address, latitude, longitude
Candidates ==
    { ResultToken("Null Island", <<0, 0>>, <<0, 0>>),
      ResultToken("Antimeridian", <<0, 0>>, <<180, 0>>),
      ResultToken("North", <<55, 1>>, <<0, 0>>),
      ResultToken("South", <<-55, 1>>, <<180, 0>>),
      ResultToken("London, UK", <<515074, 4>>, <<-1278, 4>>),
      ResultToken("Paris, France", <<488566, 4>>, <<23522, 4>> ) }

JsonNumbers == {c.lat : c \in Candidates} \cup {c.lng : c \in Candidates}

\* ParseNumber on the numbers of Candidates, computed once
DegreeOf == [num \in JsonNumbers |-> ParseNumber(num)]

\* the GoogleGeoResult decoded from a result token
GoogleGeoResult(tok) ==
    [FormattedAddress |-> tok.formatted_address,
     Lat |-> DegreeOf[tok.lat], Lng |-> DegreeOf[tok.lng]]

DecodeError(e) == [err |-> e, Results |-> <<>>]

RECURSIVE DecodeMembers(_, _, _)
RECURSIVE DecodeArray(_, _, _)
\* the members of the object, from token i; res is the value of "results" so far
DecodeMembers(b, i, res) ==
    IF i > Len(b) THEN DecodeError("unexpected EOF")
    ELSE IF b[i].t = "}" THEN [err |-> "", Results |-> res]
    ELSE IF b[i].t = "status" THEN DecodeMembers(b, i + 1, res)
    ELSE IF b[i].t = "results"
         THEN (IF i + 1 > Len(b) THEN DecodeError("unexpected EOF")
               ELSE IF b[i + 1].t # "[" THEN DecodeError("invalid character")
               ELSE DecodeArray(b, i + 2, <<>>))
    ELSE DecodeError("invalid character")

DecodeArray(b, i, res) ==
    IF i > Len(b) THEN DecodeError("unexpected EOF")
    ELSE IF b[i].t = "]" THEN DecodeMembers(b, i + 1, res)
    ELSE IF b[i].t = "result"
         THEN DecodeArray(b, i + 1, Append(res, GoogleGeoResult(b[i])))
    ELSE DecodeError("invalid character")

\* json.NewDecoder(resp.Body).Decode(r)
Decode(b) ==
    IF b = <<>> THEN DecodeError("EOF")
    ELSE IF b[1].t # "{" THEN DecodeError("invalid character")
    ELSE DecodeMembers(b, 2, <<>>)

\* the nil pointer and the empty slice
Nil == <<>>

\* the longest list of results in a body
MaxResults == 2

ResultLists == SeqsUpTo(Candidates, MaxResults)

\* the service's answer with the results rs
Document(rs) ==
    <<LBrace, ResultsKey, LBracket>> \o rs
        \o <<RBracket, StatusMember(IF rs = <<>> THEN "ZERO_RESULTS" ELSE "OK"), RBrace>>

Documents == {Document(rs) : rs \in ResultLists}

\* a document cut short, a document followed by something else, and bodies that
\* are no JSON object at all
Truncated == {SubSeq(d, 1, n) : d \in Documents, n \in 0..(MaxResults + 4)}
                 \ Documents

Trailing == {d \o <<Junk>> : d \in Documents}

Malformed == { <<Junk>>, <<LBrace, Junk, RBrace>>, <<LBrace, ResultsKey, Junk>>,
               <<LBrace, ResultsKey, LBracket, Junk, RBracket, RBrace>> }

Bodies == Documents \cup Truncated \cup Trailing \cup Malformed \cup {<<LBrace, RBrace>>}

\* what http.Get returns: an error, or a response with a body
Responses == {[err |-> "connection refused", body |-> <<>>]}
                 \cup {[err |-> "", body |-> b] : b \in Bodies}

(***************************************************************************)
(* GoogleGeocodingAPI.GetLocation. A *Location is Nil or <<location>>, an  *)
(* error is the empty string (nil) or its message.                         *)
(***************************************************************************)
GOOGLE_API == "https://maps.googleapis.com/maps/api/geocode/json"

\* the grave accent (96), which no string of TLA+ can hold
Grave == "grave"

\* the printable characters of ASCII, from the space (32) to the tilde (126)
Ascii ==
    <<" ", "!", "\"", "#", "$", "%", "&", "'", "(", ")", "*", "+", ",", "-", ".", "/",
      "0", "1", "2", "3", "4", "5", "6", "7", "8", "9", ":", ";", "<", "=", ">", "?",
      "@", "A", "B", "C", "D", "E", "F", "G", "H", "I", "J", "K", "L", "M", "N", "O",
      "P", "Q", "R", "S", "T", "U", "V", "W", "X", "Y", "Z", "[", "\\", "]", "^", "_",
      Grave, "a", "b", "c", "d", "e", "f", "g", "h", "i", "j", "k", "l", "m", "n", "o",
      "p", "q", "r", "s", "t", "u", "v", "w", "x", "y", "z", "{", "|", "}", "~">>

\* the byte of the character c
ByteOf(c) == 31 + (CHOOSE i \in 1..Len(Ascii) : Ascii[i] = c)

\* the characters url.QueryEscape leaves as they are: letters, digits and - _ . ~
Unreserved ==
    {Ascii[i] : i \in (17..26) \cup (34..59) \cup (66..91)} \cup {"-", "_", ".", "~"}

UpperHex == <<"0", "1", "2", "3", "4", "5", "6", "7", "8", "9", "A", "B", "C", "D", "E", "F">>

\* url.QueryEscape of one character: the space becomes "+", any other character
\* that is not unreserved "%" and the two hexadecimal digits of its byte
EscapeChar(c) ==
    IF c \in Unreserved THEN <<c>>
    ELSE IF c = " " THEN <<"+">>
    ELSE <<"%", UpperHex[(ByteOf(c) \div 16) + 1], UpperHex[(ByteOf(c) % 16) + 1]>>

RECURSIVE QueryEscape(_)
QueryEscape(q) == IF q = <<>> THEN <<>> ELSE EscapeChar(Head(q)) \o QueryEscape(Tail(q))

\* RequestURL appending the key parameter whatever the key is
RequestURLAlwaysKey(key, q) ==
    <<GOOGLE_API, "?sensor=false&address=">> \o QueryEscape(q) \o <<"&key=">> \o key

\* request_url: the endpoint and the literal "?sensor=false&address=" are one
\* element each, the rest is characters
RequestURL(key, q) ==
    <<GOOGLE_API, "?sensor=false&address=">> \o QueryEscape(q)
        \o (IF Len(key) > 0 THEN <<"&key=">> \o key ELSE <<>>)

\* LocationFrom returning a zero Location with the error instead of nil
LocationFromLenient(resp) ==
    IF resp.err # ""
    THEN [loc |-> <<[Lat |-> F64Zero(0), Lng |-> F64Zero(0), Address |-> ""]>>,
          err |-> resp.err]
    ELSE IF Decode(resp.body).err # ""
    THEN [loc |-> <<[Lat |-> F64Zero(0), Lng |-> F64Zero(0), Address |-> ""]>>,
          err |-> Decode(resp.body).err]
    ELSE IF Len(Decode(resp.body).Results) = 0 THEN [loc |-> Nil, err |-> ""]
    ELSE [loc |-> <<[Lat |-> Decode(resp.body).Results[1].Lat,
                     Lng |-> Decode(resp.body).Results[1].Lng,
                     Address |-> Decode(resp.body).Results[1].FormattedAddress]>>,
          err |-> ""]

\* a decoded result as a Location
LocationOf(r) == [Lat |-> r.Lat, Lng |-> r.Lng, Address |-> r.FormattedAddress]

\* LocationFrom taking the last result instead of the first
LocationFromLast(resp) ==
    IF resp.err # "" THEN [loc |-> Nil, err |-> resp.err]
    ELSE IF Decode(resp.body).err # "" THEN [loc |-> Nil, err |-> Decode(resp.body).err]
    ELSE IF Len(Decode(resp.body).Results) = 0 THEN [loc |-> Nil, err |-> ""]
    ELSE [loc |-> <<LocationOf(Decode(resp.body).Results[Len(Decode(resp.body).Results)])>>,
          err |-> ""]

\* the rest of GetLocation once the body decoded to r
LocationFound(r) ==
    IF r.err # "" THEN [loc |-> Nil, err |-> r.err]
    ELSE IF Len(r.Results) = 0 THEN [loc |-> Nil, err |-> ""]
    ELSE [loc |-> <<LocationOf(r.Results[1])>>, err |-> ""]

\* what GetLocation returns for the response resp of http.Get
LocationFrom(resp) ==
    IF resp.err # "" THEN [loc |-> Nil, err |-> resp.err]
    ELSE LocationFound(Decode(resp.body))

(***************************************************************************)
(* fmt.Printf("%f\n", x): the decimal expansion of x rounded to six        *)
(* digits after the point, as [neg, int, frac] for int.frac, or the text   *)
(* of a NaN or an infinity. Values of 2^30 or more are outside the model.  *)
(***************************************************************************)
\* floor(a / d) and a mod d for a limb d, from limb i downwards with remainder r
RECURSIVE BigDivSmallFrom(_, _, _, _)
BigDivSmallFrom(a, d, i, r) ==
    IF i = 0 THEN <<<<>>, r>>
    ELSE LET t == r * LimbBase + a[i]
             rest == BigDivSmallFrom(a, d, i - 1, t % d)
         IN  <<Append(rest[1], t \div d), rest[2]>>

BigDivSmall(a, d) ==
    LET qr == BigDivSmallFrom(a, d, Len(a), 0) IN <<BigNorm(qr[1]), qr[2]>>

\* a / 2^k rounded to the nearest integer, ties to even
BigShrRound(a, k) ==
    LET q == BigShr(a, k)
    IN  IF k > 0 /\ BigBit(a, k - 1) = 1 /\ (BigLowBits(a, k - 1) \/ BigOdd(q))
        THEN BigAdd(q, <<1>>)
        ELSE q

FormatF(x) ==
    IF IsNaN(x) THEN [text |-> "NaN"]
    ELSE IF x.k = "inf" THEN [text |-> IF x.s = 1 THEN "-Inf" ELSE "+Inf"]
    ELSE IF x.k = "zero" THEN [neg |-> x.s = 1, int |-> 0, frac |-> 0]
    ELSE LET m == BigMulLimb(BigMulLimb(x.m, 1000), 1000)
             n == IF x.e >= 0 THEN BigShl(m, x.e) ELSE BigShrRound(m, 0 - x.e)
             lo == BigDivSmall(n, 1000)
             hi == BigDivSmall(lo[1], 1000)
         IN  [neg |-> x.s = 1, int |-> BigToInt(hi[1]), frac |-> hi[2] * 1000 + lo[2]]

\* every (location, error) GetLocation can return, computed once
LocationOutcomes == {LocationFrom(resp) : resp \in Responses}

\* the locations the service can answer with
KnownLocations == {o.loc[1] : o \in {x \in LocationOutcomes : x.loc # Nil}}

\* geoDistance on the known locations, computed once
DistanceTable ==
    {[loc1 |-> p[1], loc2 |-> p[2], dist |-> geoDistance(p[1], p[2])] :
        p \in KnownLocations \X KnownLocations}

DistIn(rows, loc1, loc2) ==
    IF rows = {} THEN geoDistance(loc1, loc2) ELSE (CHOOSE r \in rows : TRUE).dist

geoDistanceOf(loc1, loc2) ==
    DistIn({r \in DistanceTable : r.loc1 = loc1 /\ r.loc2 = loc2}, loc1, loc2)

\* KM2Miles on the distances of the table, computed once
MilesTable == {[km |-> r.dist, miles |-> KM2Miles(r.dist)] : r \in DistanceTable}

MilesIn(rows, km) == IF rows = {} THEN KM2Miles(km) ELSE (CHOOSE r \in rows : TRUE).miles

KM2MilesOf(km) == MilesIn({r \in MilesTable : r.km = km}, km)

\* the %f text of every value GetDistance can return, computed once
FormatTable ==
    {[val |-> v, text |-> FormatF(v)] : v \in UNION {{r.km, r.miles} : r \in MilesTable}}

TextIn(rows, x) == IF rows = {} THEN FormatF(x) ELSE (CHOOSE r \in rows : TRUE).text

FormatFOf(x) == TextIn({r \in FormatTable : r.val = x}, x)

(***************************************************************************)
(* The program: main, GetDistance and its two lookup tasks.                *)
(*   args       the command line after the program name                   *)
(*   pc         where main is: "main", "join" (the receive loop of         *)
(*              GetDistance), "compute", "print", "exited"; "off" when     *)
(*              only one GetLocation call is observed                      *)
(*   unit       *unit after flag.Parse                                     *)
(*   stdout, stderr   what was written, one item per write                 *)
(*   exit       Nil while the process runs, then <<status>>                *)
(*   tasks      the two goroutines: [pc, q, loc, err]; pc is "idle",       *)
(*              "lookup", "wait" (for the response), "hung", "send" or     *)
(*              "done"; err is the error GetLocation returned to the task  *)
(*   locations  the slice of GetDistance                                   *)
(*   requests   the URLs each task has requested                           *)
(*   geoArgs    Nil, or the two locations geoDistance was called with      *)
(*   dist       Nil, or <<dist>> of GetDistance                            *)
(*   ret        Nil, or <<[val, err]>> returned by GetDistance             *)
(*   lk         one call of GetLocation on its own: [pc, key, q, resp,     *)
(*              url, loc, err]                                             *)
(***************************************************************************)
VARIABLES args, pc, unit, stdout, stderr, exit, tasks, locations, requests,
          geoArgs, dist, ret, lk

vars == <<args, pc, unit, stdout, stderr, exit, tasks, locations, requests,
          geoArgs, dist, ret, lk>>

Tasks == {1, 2}

\* var g GoogleGeocodingAPI: the zero value, an empty key
APIKey == <<>>

IdleTask == [pc |-> "idle", q |-> <<>>, loc |-> Nil, err |-> ""]

NoResponse == [err |-> "", body |-> <<>>]

NoLookup ==
    [pc |-> "off", key |-> <<>>, q |-> <<>>, resp |-> NoResponse, url |-> <<>>,
     loc |-> Nil, err |-> ""]

InitProgram ==
    /\ unit = <<>>
    /\ stdout = <<>>
    /\ stderr = <<>>
    /\ exit = Nil
    /\ tasks = [t \in Tasks |-> IdleTask]
    /\ locations = <<>>
    /\ requests = [t \in Tasks |-> <<>>]
    /\ geoArgs = Nil
    /\ dist = Nil
    /\ ret = Nil

Init ==
    /\ args \in CommandLines
    /\ pc = "main"
    /\ lk = NoLookup
    /\ InitProgram

UnitLine(u) == [kind |-> "unit", val |-> u]

UsageText == [kind |-> "usage", val |-> <<>>]

DistanceLine(x) == [kind |-> "distance", val |-> <<FormatFOf(x)>>]

ValidUnit(u) == u = Km \/ u = Miles

\* main up to the call of GetDistance, the two go statements included
Main ==
    /\ pc = "main"
    /\ LET f == FlagParse(args)
           n == Len(args)
       IN  IF f.err = ErrHelp
           THEN /\ stderr' = <<UsageText>>
                /\ exit' = <<0>>
                /\ pc' = "exited"
                /\ UNCHANGED <<unit, stdout, tasks>>
           ELSE IF f.err # ""
           THEN /\ stderr' = <<[kind |-> "flag", val |-> f.err], UsageText>>
                /\ exit' = <<2>>
                /\ pc' = "exited"
                /\ UNCHANGED <<unit, stdout, tasks>>
           ELSE /\ unit' = f.unit
                /\ stderr' = stderr
                /\ IF ~ValidUnit(f.unit)
                   THEN /\ stdout' = <<UnitLine(f.unit), UsageText>>
                        /\ exit' = <<1>>
                        /\ pc' = "exited"
                        /\ tasks' = tasks
                   ELSE IF f.help
                   THEN /\ stdout' = <<UnitLine(f.unit), UsageText>>
                        /\ exit' = <<0>>
                        /\ pc' = "exited"
                        /\ tasks' = tasks
                   ELSE IF n + 1 < 3
                   THEN /\ stdout' = <<UnitLine(f.unit), UsageText>>
                        /\ exit' = <<1>>
                        /\ pc' = "exited"
                        /\ tasks' = tasks
                   ELSE /\ stdout' = <<UnitLine(f.unit)>>
                        /\ exit' = exit
                        /\ pc' = "join"
                        /\ tasks' = [t \in Tasks |->
                                        [IdleTask EXCEPT !.pc = "lookup",
                                                         !.q = args[n - 2 + t]]]
    /\ UNCHANGED <<args, locations, requests, geoArgs, dist, ret, lk>>

\* Lookup with the task appending its result to locations itself
LookupShared(t) ==
    /\ tasks[t].pc = "wait"
    /\ \E o \in LocationOutcomes :
           /\ tasks' = [tasks EXCEPT ![t] = [@ EXCEPT !.pc = "done", !.loc = o.loc,
                                                      !.err = o.err]]
           /\ locations' = Append(locations, o.loc)
    /\ pc' = IF Len(locations') = 2 THEN "compute" ELSE pc
    /\ UNCHANGED <<args, unit, stdout, stderr, exit, requests, geoArgs, dist, ret, lk>>

\* Lookup asking again when the lookup failed
LookupRetry(t) ==
    /\ tasks[t].pc = "wait"
    /\ \E o \in LocationOutcomes :
           tasks' = [tasks EXCEPT ![t] = [@ EXCEPT !.pc = IF o.err # "" THEN "lookup"
                                                          ELSE "send",
                                                   !.loc = o.loc, !.err = o.err]]
    /\ UNCHANGED <<args, pc, unit, stdout, stderr, exit, locations, requests, geoArgs,
                   dist, ret, lk>>

\* g.GetLocation(q) up to http.Get(request_url): the request goes out and the
\* task waits for the response, while the other task and main run
Request(t) ==
    /\ tasks[t].pc = "lookup"
    /\ tasks' = [tasks EXCEPT ![t] = [@ EXCEPT !.pc = "wait"]]
    /\ requests' = [requests EXCEPT ![t] = Append(@, RequestURL(APIKey, tasks[t].q))]
    /\ UNCHANGED <<args, pc, unit, stdout, stderr, exit, locations, geoArgs, dist,
                   ret, lk>>

\* loc, _ := g.GetLocation(q): http.Get returns, the body is decoded and
\* GetLocation returns; the error is dropped
Lookup(t) ==
    /\ tasks[t].pc = "wait"
    /\ \E o \in LocationOutcomes :
           tasks' = [tasks EXCEPT ![t] = [@ EXCEPT !.pc = "send", !.loc = o.loc,
                                                   !.err = o.err]]
    /\ UNCHANGED <<args, pc, unit, stdout, stderr, exit, locations, requests, geoArgs,
                   dist, ret, lk>>

\* Hang with a client timeout: the hung call ends in an error
HangTimeout(t) ==
    /\ tasks[t].pc \in {"wait", "hung"}
    /\ tasks' = [tasks EXCEPT ![t] =
                    IF @.pc = "wait" THEN [@ EXCEPT !.pc = "hung"]
                    ELSE [@ EXCEPT !.pc = "send", !.err = "timeout"]]
    /\ UNCHANGED <<args, pc, unit, stdout, stderr, exit, locations, requests, geoArgs,
                   dist, ret, lk>>

\* http.Get never returns: the default client has no timeout. The task stays
\* in GetLocation for ever
Hang(t) ==
    /\ tasks[t].pc = "wait"
    /\ tasks' = [tasks EXCEPT ![t] = [@ EXCEPT !.pc = "hung"]]
    /\ UNCHANGED <<args, pc, unit, stdout, stderr, exit, locations, requests, geoArgs,
                   dist, ret, lk>>

\* JoinFull waiting for a third result
JoinFullLate(locs) == Len(locs) = 3

\* JoinFull with the comparison off by one
JoinFullEarly(locs) == Len(locs) >= 1

\* len(locations) == 2
JoinFull(locs) == Len(locs) = 2

\* ch <- loc meets r := <-ch; locations = append(locations, r)
Receive(t) ==
    /\ pc = "join"
    /\ tasks[t].pc = "send"
    /\ tasks' = [tasks EXCEPT ![t] = [@ EXCEPT !.pc = "done"]]
    /\ locations' = Append(locations, tasks[t].loc)
    /\ pc' = IF JoinFull(locations') THEN "compute" ELSE "join"
    /\ UNCHANGED <<args, unit, stdout, stderr, exit, requests, geoArgs, dist, ret, lk>>

ZeroLocation == [Lat |-> F64Zero(0), Lng |-> F64Zero(0), Address |-> ""]

\* Deref reading a zero Location through a nil pointer
DerefZero(p) ==
    IF p = Nil THEN [fault |-> FALSE, val |-> ZeroLocation]
    ELSE [fault |-> FALSE, val |-> p[1]]

\* *p: reading through a nil pointer faults
Deref(p) ==
    IF p = Nil THEN [fault |-> TRUE, val |-> ZeroLocation]
    ELSE [fault |-> FALSE, val |-> p[1]]

PanicNil ==
    [kind |-> "panic", val |-> "invalid memory address or nil pointer dereference"]

\* dist := geoDistance(l1, l2), and the return of dist or KM2Miles(dist)
GetDistanceReturn(l1, l2, d) ==
    /\ geoArgs' = <<l1, l2>>
    /\ dist' = <<d>>
    /\ ret' = <<[val |-> IF unit = Miles THEN KM2MilesOf(d) ELSE d, err |-> ""]>>
    /\ pc' = "print"
    /\ UNCHANGED <<stderr, exit>>

\* geoDistance(*locations[0], *locations[1]) and the return of GetDistance
Compute ==
    /\ pc = "compute"
    /\ IF Deref(locations[1]).fault \/ Deref(locations[2]).fault
       THEN /\ stderr' = Append(stderr, PanicNil)
            /\ exit' = <<2>>
            /\ pc' = "exited"
            /\ UNCHANGED <<geoArgs, dist, ret>>
       ELSE GetDistanceReturn(Deref(locations[1]).val, Deref(locations[2]).val,
                              geoDistanceOf(Deref(locations[1]).val,
                                            Deref(locations[2]).val))
    /\ UNCHANGED <<args, unit, stdout, tasks, locations, requests, lk>>

\* if err != nil { panic(err) }; fmt.Printf("%f\n", distance)
Printf ==
    /\ pc = "print"
    /\ IF ret[1].err # ""
       THEN /\ stderr' = Append(stderr, [kind |-> "panic", val |-> ret[1].err])
            /\ exit' = <<2>>
            /\ stdout' = stdout
       ELSE /\ stdout' = Append(stdout, DistanceLine(ret[1].val))
            /\ exit' = <<0>>
            /\ stderr' = stderr
    /\ pc' = "exited"
    /\ UNCHANGED <<args, unit, tasks, locations, requests, geoArgs, dist, ret, lk>>

Next ==
    \/ Main
    \/ \E t \in Tasks : Request(t)
    \/ \E t \in Tasks : Lookup(t)
    \/ \E t \in Tasks : Hang(t)
    \/ \E t \in Tasks : Receive(t)
    \/ Compute
    \/ Printf

Spec == Init /\ [][Next]_vars

\* The Go scheduler runs every goroutine that can run: main goes on, a send
\* that the receive loop waits for is matched. Nothing makes http.Get return.
FairSpec ==
    /\ Spec
    /\ WF_vars(Main)
    /\ \A t \in Tasks : WF_vars(Receive(t))
    /\ WF_vars(Compute)
    /\ WF_vars(Printf)

(***************************************************************************)
(* One call of GetLocation on its own, step by step: the request, then the *)
(* decoding of the response.                                               *)
(***************************************************************************)
Keys == {<<>>, <<"K">>}

Queries == {NewYork, Feet, UnitMiles}

InitLookup ==
    /\ args = <<>>
    /\ pc = "off"
    /\ lk \in {[NoLookup EXCEPT !.pc = "call", !.key = k, !.q = q] :
                  k \in Keys, q \in Queries}
    /\ InitProgram

\* resp, err := http.Get(request_url)
HttpGet ==
    /\ lk.pc = "call"
    /\ \E resp \in Responses :
           lk' = [lk EXCEPT !.pc = "response", !.url = RequestURL(lk.key, lk.q),
                            !.resp = resp]
    /\ UNCHANGED <<args, pc, unit, stdout, stderr, exit, tasks, locations, requests,
                   geoArgs, dist, ret>>

\* the error check, the decoding and the return of GetLocation
GetLocationReturn ==
    /\ lk.pc = "response"
    /\ lk' = [lk EXCEPT !.pc = "returned", !.loc = LocationFrom(lk.resp).loc,
                        !.err = LocationFrom(lk.resp).err]
    /\ UNCHANGED <<args, pc, unit, stdout, stderr, exit, tasks, locations, requests,
                   geoArgs, dist, ret>>

NextLookup == HttpGet \/ GetLocationReturn

SpecLookup == InitLookup /\ [][NextLookup]_vars

(***************************************************************************)
(* Properties.                                                             *)
(***************************************************************************)
\* the lookup of task t has returned
Returned(t) == tasks[t].pc \in {"send", "done"}

\* its http.Get never returns
Hung(t) == tasks[t].pc = "hung"

\* its request is out
Requested(t) == tasks[t].pc = "wait" \/ Hung(t) \/ Returned(t)

\* it returned (nil, nil)
NotFound(t) == Returned(t) /\ tasks[t].loc = Nil /\ tasks[t].err = ""

\* it returned a transport error or a decode error
Failed(t) == Returned(t) /\ tasks[t].err # ""

Panicked == \E i \in 1..Len(stderr) : stderr[i].kind = "panic"

DistancePrinted == \E i \in 1..Len(stdout) : stdout[i].kind = "distance"

UsagePrinted == \E i \in 1..Len(stdout) : stdout[i] = UsageText

\* C1: once one of the two lookups has yielded NotFound, in either order of
\* arrival, geoDistance is not called and GetDistance returns no value: the
\* process can only end, and ends with the fault of the nil dereference.
C1_NotFoundFaults ==
    (\E t \in Tasks : NotFound(t)) =>
        /\ geoArgs = Nil
        /\ dist = Nil
        /\ ret = Nil
        /\ pc \in {"join", "compute", "exited"}
        /\ pc = "exited" => (exit = <<2>> /\ Panicked)

\* the lookup of the first query found nothing and its nil arrived first
C1_Witness ==
    /\ pc = "exited"
    /\ NotFound(1)
    /\ tasks[2].loc # Nil
    /\ locations = <<Nil, tasks[2].loc>>

\* C2: when a lookup has failed with a transport error or a decode error and
\* the process has ended, GetDistance has returned that error to its caller.
C2_ErrorReturned ==
    \A t \in Tasks :
        (Failed(t) /\ pc = "exited") => (ret # Nil /\ ret[1].err = tasks[t].err)

\* C3: geoDistance is called, or faults on its arguments, only when both
\* tasks have handed their result to the join and locations holds both.
C3_ComputeAfterBoth ==
    (pc \in {"compute", "print"} \/ geoArgs # Nil \/ Panicked) =>
        /\ Len(locations) = 2
        /\ \A t \in Tasks : tasks[t].pc = "done"

\* geoDistance was called after the second task delivered first
C3_Witness ==
    /\ geoArgs # Nil
    /\ tasks[1].loc # tasks[2].loc
    /\ locations = <<tasks[2].loc, tasks[1].loc>>

\* C4: once a lookup has ended in a transport error, a decode error or
\* NotFound, no distance is ever printed, and when the process has ended its
\* status is not 0 and something was written to standard error.
C4_FailureNoDistance ==
    (\E t \in Tasks : Failed(t) \/ NotFound(t)) =>
        /\ ~DistancePrinted
        /\ pc # "print"
        /\ pc = "exited" => (exit # Nil /\ exit # <<0>> /\ stderr # <<>>)

\* the body of the first lookup was cut short, the second lookup succeeded
C4_Witness ==
    /\ pc = "exited"
    /\ tasks[1].err = "unexpected EOF"
    /\ tasks[2].loc # Nil
    /\ exit = <<2>>

\* C5: when the request succeeded and the body is a document with the list
\* of results rs, GetLocation returns (nil, nil) exactly when rs is empty, and
\* otherwise the latitude, longitude and address of rs[1] with a nil error.
C5_FirstCandidate ==
    lk.pc = "returned" =>
        \A rs \in ResultLists :
            lk.resp = [err |-> "", body |-> Document(rs)] =>
                /\ lk.err = ""
                /\ (lk.loc = Nil) <=> (rs = <<>>)
                /\ rs # <<>> =>
                       lk.loc = <<[Lat |-> ParseNumber(rs[1].lat),
                                   Lng |-> ParseNumber(rs[1].lng),
                                   Address |-> rs[1].formatted_address]>>

\* a document with two different results
C5_Witness ==
    /\ lk.pc = "returned"
    /\ lk.loc # Nil
    /\ \E rs \in ResultLists :
           /\ Len(rs) = 2
           /\ rs[1].lat # rs[2].lat
           /\ lk.resp.body = Document(rs)

\* C6: a body that is cut short or is not a JSON document yields a decode
\* error (nil, error), a transport error is returned as it is, and only the
\* document with no results yields NotFound (nil, nil).
C6_MalformedIsDecodeError ==
    lk.pc = "returned" =>
        /\ (lk.resp.err = "" /\ lk.resp.body \in Truncated \cup Malformed \cup Trailing)
               => (lk.loc = Nil /\ lk.err # "")
        /\ lk.resp.err # "" => (lk.loc = Nil /\ lk.err = lk.resp.err)
        /\ (lk.resp.err = "" /\ lk.resp.body = Document(<<>>))
               => (lk.loc = Nil /\ lk.err = "")

\* C7: the value GetDistance returns is the float64 product of geoDistance of
\* its two locations and 0.621371192 when the unit is "miles", and geoDistance
\* of the two locations itself for any other unit; the error is nil.
C7_MilesConversion ==
    ret # Nil =>
        /\ geoArgs # Nil
        /\ ret[1].err = ""
        /\ ret[1].val = IF unit = Miles
                        THEN F64Mul(geoDistanceOf(geoArgs[1], geoArgs[2]), MilesPerKm)
                        ELSE geoDistanceOf(geoArgs[1], geoArgs[2])

\* a distance in miles, smaller than the distance in kilometres
C7_Witness ==
    /\ ret # Nil
    /\ unit = Miles
    /\ F64Lt(ret[1].val, dist[1])

\* C8: geoDistance(A, B) and geoDistance(B, A) are the same float64 value.
C8_Symmetric ==
    geoArgs # Nil => dist[1] = geoDistanceOf(geoArgs[2], geoArgs[1])

\* two places of different latitude and longitude, a positive distance
C8_Witness ==
    /\ geoArgs # Nil
    /\ geoArgs[1].Lat # geoArgs[2].Lat
    /\ geoArgs[1].Lng # geoArgs[2].Lng
    /\ F64Lt(F64Zero(0), dist[1])

\* C9: geoDistance returns a number, never NaN, and 0 for two equal points.
C9_FiniteDistance ==
    geoArgs # Nil =>
        /\ dist[1].k \in {"zero", "num"}
        /\ (geoArgs[1].Lat = geoArgs[2].Lat /\ geoArgs[1].Lng = geoArgs[2].Lng)
               => dist[1].k = "zero"

HasHelp == \E i \in 1..Len(args) : args[i] = TokHelp

\* C10: on a command line that contains --help no lookup is requested, and
\* the process ends with status 0 after printing the usage.
C10_HelpExitsZero ==
    HasHelp =>
        /\ \A t \in Tasks : requests[t] = <<>>
        /\ pc = "exited" => (exit = <<0>> /\ UsagePrinted)

\* C11: on a command line whose flags parse, without --help, and with fewer
\* than two arguments left after the flags, no lookup is requested, and the
\* process ends with status 1 after printing the usage.
C11_TooFewPlacesUsage ==
    (FlagParse(args).err = "" /\ ~FlagParse(args).help /\ FlagParse(args).narg < 2) =>
        /\ \A t \in Tasks : requests[t] = <<>> /\ tasks[t].pc = "idle"
        /\ pc = "exited" => (exit = <<1>> /\ UsagePrinted)

\* C12: each task has requested exactly one URL from the moment its request
\* is out, while it waits or hangs and once its lookup has returned (whatever
\* the outcome), and none before: the URL of its own query, the second to last
\* argument for task 1 and the last for task 2. When the join is over exactly
\* two requests have been made.
C12_TwoRequests ==
    /\ \A t \in Tasks :
           /\ Len(requests[t]) = IF Requested(t) THEN 1 ELSE 0
           /\ Requested(t) => requests[t][1] = RequestURL(<<>>, args[Len(args) - 2 + t])
    /\ (pc \in {"compute", "print"} \/ ret # Nil \/ Panicked) =>
           Len(requests[1]) + Len(requests[2]) = 2

\* the same place asked twice, the first lookup failed: two equal requests
C12_Witness ==
    /\ pc = "exited"
    /\ Len(args) >= 2
    /\ args[Len(args) - 1] = args[Len(args)]
    /\ tasks[1].err # ""
    /\ Len(requests[1]) = 1
    /\ requests[1] = requests[2]

\* C13: once the network call of a lookup hangs, it hangs for ever and
\* GetDistance stays in its receive loop for ever: it never returns a value,
\* never faults, and the process never ends, whatever the other lookup does.
C13_HungBlocksForever ==
    \A t \in Tasks :
        [](Hung(t) => [](Hung(t) /\ pc = "join" /\ ret = Nil /\ exit = Nil))

\* the second lookup hangs after the first delivered a location
C13_Witness ==
    /\ Hung(2)
    /\ tasks[1].pc = "done"
    /\ locations # <<>>
    /\ locations[1] # Nil

\* C14: in every step, locations changes only by the orchestrator appending
\* what it received from one task that was sending; a step of a task writes
\* only that task's own result and request, never the other task's and never
\* locations; after its single send a task writes nothing more; and once the
\* tasks run no step writes the state of both.
C14_NoSharedWrites ==
    [][/\ locations' # locations =>
              /\ pc = "join"
              /\ \E t \in Tasks :
                     /\ tasks[t].pc = "send" /\ tasks'[t].pc = "done"
                     /\ locations' = Append(locations, tasks[t].loc)
                     /\ \A u \in Tasks \ {t} : tasks'[u] = tasks[u]
       /\ \A t \in Tasks :
              (tasks'[t].loc # tasks[t].loc \/ tasks'[t].err # tasks[t].err
                   \/ requests'[t] # requests[t]) =>
                  /\ tasks[t].pc \in {"lookup", "wait"}
                  /\ locations' = locations
                  /\ \A u \in Tasks \ {t} :
                         tasks'[u] = tasks[u] /\ requests'[u] = requests[u]
       /\ \A t \in Tasks : tasks[t].pc = "done" => tasks'[t] = tasks[t]
       /\ pc # "main" =>
              \A t, u \in Tasks :
                  (tasks'[t] # tasks[t] /\ tasks'[u] # tasks[u]) => t = u]_vars

\* both results collected, the nil of the second task first
C14_Witness ==
    /\ Len(locations) = 2
    /\ \A t \in Tasks : tasks[t].pc = "done"
    /\ tasks[2].loc = Nil
    /\ tasks[1].loc # Nil
    /\ locations = <<Nil, tasks[1].loc>>

\* C15: under fair scheduling, once both lookups have returned, whatever
\* their outcomes, both sends are eventually received and GetDistance has
\* returned or faulted; the receive loop never receives a third time.
C15_JoinFinishes ==
    /\ (\A t \in Tasks : Returned(t)) ~>
           ((\A t \in Tasks : tasks[t].pc = "done") /\ (ret # Nil \/ Panicked))
    /\ [](Len(locations) <= 2)

\* both lookups failed, both sends were received, GetDistance faulted
C15_Witness ==
    /\ \A t \in Tasks : tasks[t].pc = "done" /\ tasks[t].err # ""
    /\ Len(locations) = 2
    /\ Panicked

\* what GetDistance yields for the outcomes o1 of the lookup of q1 and o2 of
\* the lookup of q2, whichever arrived first
OutcomeOf(u, o1, o2) ==
    IF o1 = Nil \/ o2 = Nil THEN [fault |-> TRUE, ret |-> Nil]
    ELSE [fault |-> FALSE,
          ret |-> <<[val |-> IF u = Miles
                             THEN KM2MilesOf(geoDistanceOf(o1[1], o2[1]))
                             ELSE geoDistanceOf(o1[1], o2[1]),
                     err |-> ""]>>]

\* C16: locations holds the results in the order of their arrival, the
\* result of either task first; once GetDistance has ended, its result (the
\* value returned, or the fault) is the one fixed by the unit and the two
\* lookup outcomes taken in the order of the tasks, whatever the order of
\* arrival was.
C16_OrderIndependent ==
    /\ Len(locations) = 1 =>
           \E t \in Tasks : tasks[t].pc = "done" /\ locations = <<tasks[t].loc>>
    /\ Len(locations) = 2 =>
           /\ locations \in {<<tasks[1].loc, tasks[2].loc>>,
                             <<tasks[2].loc, tasks[1].loc>>}
           /\ pc # "compute" =>
                  /\ ret = OutcomeOf(unit, tasks[1].loc, tasks[2].loc).ret
                  /\ Panicked = OutcomeOf(unit, tasks[1].loc, tasks[2].loc).fault

\* the result of the second task arrived first, the two places differ in
\* latitude, and GetDistance returned a distance
C16_Witness ==
    /\ ret # Nil
    /\ tasks[1].loc # Nil /\ tasks[2].loc # Nil
    /\ tasks[1].loc[1].Lat # tasks[2].loc[1].Lat
    /\ locations = <<tasks[2].loc, tasks[1].loc>>
    /\ geoArgs = <<tasks[2].loc[1], tasks[1].loc[1]>>

\* the request carries a key parameter
HasKeyParam(url) == \E i \in 1..Len(url) : url[i] = "&key="

\* C17: the URL GetLocation requests ends with the key parameter, the key as
\* it is, exactly when the key is not empty; with an empty key it is the
\* endpoint, sensor=false and the address, and nothing else. The address is
\* URL-escaped: no space, "&" or "=" of the query is left in it.
C17_KeyParameter ==
    lk.pc \in {"response", "returned"} =>
        /\ HasKeyParam(lk.url) <=> lk.key # <<>>
        /\ SubSeq(lk.url, 1, 2 + Len(QueryEscape(lk.q)))
               = <<GOOGLE_API, "?sensor=false&address=">> \o QueryEscape(lk.q)
        /\ \A i \in 3..(2 + Len(QueryEscape(lk.q))) : lk.url[i] \notin {" ", "&", "="}
        /\ lk.key = <<>> => Len(lk.url) = 2 + Len(QueryEscape(lk.q))
        /\ lk.key # <<>> =>
               SubSeq(lk.url, 3 + Len(QueryEscape(lk.q)), Len(lk.url))
                   = <<"&key=">> \o lk.key

\* a request with a key for a place name that needs escaping
C17_Witness ==
    /\ lk.pc = "response"
    /\ lk.key = <<"K">>
    /\ \E i \in 1..Len(lk.q) : lk.q[i] = " "
    /\ HasKeyParam(lk.url)

=============================================================================
